---- MODULE Spec2Model ----
(***************************************************************************)
(* The "Available Now" Telegram bot, in its three variants:                *)
(*   src/bot.py         python-telegram-bot ConversationHandler            *)
(*   src/main.py        plain polling loop over the Bot API                *)
(*   src/bot_simple.py  aiogram FSM                                        *)
(* Each variant keeps its own stores; the variables of a variant carry its *)
(* prefix (bot_, main_, simple_).  Time is counted in hours.               *)
(***************************************************************************)
EXTENDS Integers, Sequences, FiniteSets, TLC

(* ------------------------------------------------------------------ *)
(* Bounds of the model                                                 *)
(* ------------------------------------------------------------------ *)
\* the clock stops once MaxTime hours have passed
MaxTime == 5
\* the clock advances by TickHours hours at a time
TickHours == 2
\* the channel accepts at most MaxMsgs listing messages in one run
MaxMsgs == 2

\* the user ids the stores are keyed by
Users == {1, 2}
\* the users who talk to the bot in a run of a whole variant
Operators == {1}

(* ------------------------------------------------------------------ *)
(* Python dictionaries: a dict is a function, its keys the DOMAIN      *)
(* ------------------------------------------------------------------ *)
EmptyDict == << >>
DictPut(d, k, v) == [x \in (DOMAIN d) \cup {k} |-> IF x = k THEN v ELSE d[x]]
DictDel(d, k) == [x \in (DOMAIN d) \ {k} |-> d[x]]
DictGet(d, k, default) == IF k \in DOMAIN d THEN d[k] ELSE default

(* ------------------------------------------------------------------ *)
(* Configuration read from the environment (same in the three files)   *)
(* ------------------------------------------------------------------ *)
VARIABLES APPROVED_ADMINS, TARGET_GROUP_ID

\* str(user_id)
Str(user_id) == CASE user_id = 1 -> "1" [] user_id = 2 -> "2" [] OTHER -> "?"

\* the channel the listings are posted to; 0 is the falsy value (unset, or "0")
GroupChat == 0 - 1001
\* APPROVED_ADMINS: unset, the operator alone, another user alone
AdminConfigs == {{}, {"1"}, {"2"}}
GroupConfigs == {0, GroupChat}

config == <<APPROVED_ADMINS, TARGET_GROUP_ID>>

\* the number of updates Telegram receives
MaxUpdates == 4

\* src/main.py
VARIABLES
    main_profiles,     \* db.profiles
    main_listings,     \* db.listings
    main_user_states,  \* db.user_states
    main_shared,       \* users whose committed profile is the dict object of their draft
    main_now,          \* datetime.now(), in hours
    main_channel,      \* how many listing messages reached the target group
    main_reply,        \* the last notice shown to an operator
    main_updates,      \* the updates Telegram has received, update_id = position
    main_offset,       \* offset of main()
    main_batch,        \* the update_ids of the batch the for loop of main() still has to handle
    main_handled       \* how many times the handling of each update was started (2: twice or more)

\* the variables of the polling loop of main()
varsMainLoop == <<main_updates, main_offset, main_batch, main_handled>>

varsMain == <<main_profiles, main_listings, main_user_states, main_shared,
              main_now, main_channel, main_reply, varsMainLoop>>

\* src/bot_simple.py
VARIABLES
    simple_profiles,         \* db.profiles
    simple_active_listings,  \* db.active_listings
    simple_state,            \* FSM state of each user (MemoryStorage)
    simple_data,             \* FSM data of each user (MemoryStorage)
    simple_now,              \* datetime.now(), in hours
    simple_channel,          \* how many listing messages reached the target group
    simple_reply             \* the last notice shown to an operator

varsSimple == <<simple_profiles, simple_active_listings, simple_state, simple_data,
                simple_now, simple_channel, simple_reply>>

InitConfig ==
    /\ APPROVED_ADMINS \in AdminConfigs
    /\ TARGET_GROUP_ID \in GroupConfigs

(* ================================================================== *)
(* src/bot.py                                                          *)
(* ================================================================== *)
VARIABLES
    bot_profiles,          \* db.profiles: user_id -> profile dict
    bot_active_listings,   \* db.active_listings: user_id -> listing info
    bot_listing_messages,  \* db.listing_messages: message_id -> listing info
    bot_conversations,     \* ConversationHandler state of each user
    bot_user_data,         \* context.user_data of each user
    bot_tasks,             \* coroutines created by application.create_task
    bot_pending,           \* the handler suspended at an outbound call
    bot_now,               \* datetime.now(), in hours
    bot_channel,           \* the listing messages sent to the target group, and by whom
    bot_delete_log,        \* the delete_message calls made on the group
    bot_reply,             \* the last notice shown to an operator
    bot_selections         \* offerings picked from the menu since the form was entered

varsBotDb == <<bot_profiles, bot_active_listings, bot_listing_messages>>
varsBotForm == <<bot_conversations, bot_user_data, bot_selections>>
varsBotSched == <<bot_tasks, bot_pending, bot_now, bot_channel, bot_delete_log>>
varsBot == <<varsBotDb, varsBotForm, varsBotSched, bot_reply>>

END == "END"
NoPending == [stage |-> "none"]

\* def is_approved_admin(user_id)
is_approved_admin(user_id) ==
    Str(user_id) \in APPROVED_ADMINS \/ Cardinality(APPROVED_ADMINS) = 0

\* the three stores of ProfileDatabase, as one value
BotDb == [profiles |-> bot_profiles,
          active_listings |-> bot_active_listings,
          listing_messages |-> bot_listing_messages]

\* ProfileDatabase.get_profile; None is the empty dict here (both are falsy)
ProfileDatabase_get_profile(db, user_id) == DictGet(db.profiles, user_id, EmptyDict)

\* ProfileDatabase.save_profile
ProfileDatabase_save_profile(db, user_id, profile) ==
    [db EXCEPT !.profiles = DictPut(db.profiles, user_id, profile)]

\* expires_at = datetime.now() + timedelta(hours=duration_hours)
ExpiresAt(now, duration_hours) == now + duration_hours

\* ProfileDatabase.create_listing, called at time now
ProfileDatabase_create_listing(db, user_id, duration_hours, message_id, now) ==
    LET expires_at == ExpiresAt(now, duration_hours) IN
    [db EXCEPT
       !.active_listings = DictPut(db.active_listings, user_id,
            [message_id |-> message_id, expires_at |-> expires_at,
             duration_hours |-> duration_hours]),
       !.listing_messages = DictPut(db.listing_messages, message_id,
            [user_id |-> user_id, expires_at |-> expires_at])]

\* a clean-up that keeps the listing at the instant it expires
ActiveUsers_inclusive(listings, now) ==
    {u \in DOMAIN listings : listings[u].expires_at >= now}

\* the users get_active_listings returns at time now
ActiveUsers(listings, now) ==
    {u \in DOMAIN listings : listings[u].expires_at > now}

\* ProfileDatabase.get_active_listings: the store after the clean-up loop
ProfileDatabase_get_active_listings(db, now) ==
    [db EXCEPT !.active_listings =
        [u \in ActiveUsers(db.active_listings, now) |-> db.active_listings[u]]]

\* a delete_listing that removes nothing
ProfileDatabase_delete_listing_noop(db, user_id) == db

\* ProfileDatabase.delete_listing
ProfileDatabase_delete_listing(db, user_id) ==
    IF user_id \in DOMAIN db.active_listings
    THEN LET message_id == db.active_listings[user_id].message_id IN
         [db EXCEPT !.active_listings = DictDel(db.active_listings, user_id),
                    !.listing_messages = DictDel(db.listing_messages, message_id)]
    ELSE db

SetBotDb(db) ==
    /\ bot_profiles' = db.profiles
    /\ bot_active_listings' = db.active_listings
    /\ bot_listing_messages' = db.listing_messages

\* what an action of src/bot.py leaves alone
NotBot == <<config, varsMain, varsSimple>>

(* ---- publish: mark_available, availability_duration ---- *)

\* callback data a client can send in the AVAILABILITY_DURATION state: the three
\* buttons of mark_available, a forged number, and a button of another menu
DurationData == {"duration_2", "duration_4", "duration_6", "duration_1", "mark_available"}

\* query.data.replace('duration_', '')
ReplaceDuration(data) ==
    CASE data = "duration_1" -> "1" [] data = "duration_2" -> "2"
      [] data = "duration_4" -> "4" [] data = "duration_6" -> "6"
      [] OTHER -> data

\* int(s): the strings int() accepts, and their values; any other raises ValueError
IntLiterals == {"1", "2", "4", "6"}
IntOf(s) == CASE s = "1" -> 1 [] s = "2" -> 2 [] s = "4" -> 4 [] s = "6" -> 6 [] OTHER -> 0

\* message ids are handed out by the group chat in increasing order
NextMessageId(channel) == Cardinality(DOMAIN channel) + 1

\* mark_available: entry point of the conversation (callback 'mark_available', or
\* the /available command, for which update.callback_query is None and every branch
\* of the handler raises AttributeError)
bot_mark_available(user_id, kind) ==
    /\ bot_pending = NoPending
    /\ bot_conversations[user_id] = END
    /\ IF kind = "command"
       THEN UNCHANGED <<bot_conversations, bot_reply>>
       ELSE IF ~is_approved_admin(user_id)
       THEN /\ bot_reply' = "not_admin"
            /\ UNCHANGED bot_conversations
       ELSE IF ProfileDatabase_get_profile(BotDb, user_id) = EmptyDict
       THEN /\ bot_reply' = "create_profile_first"
            /\ UNCHANGED bot_conversations
       ELSE \E edited \in BOOLEAN :
            IF edited
            THEN /\ bot_reply' = "how_long"
                 /\ bot_conversations' =
                        [bot_conversations EXCEPT ![user_id] = "AVAILABILITY_DURATION"]
            ELSE UNCHANGED <<bot_conversations, bot_reply>>
    /\ UNCHANGED <<varsBotDb, bot_user_data, bot_selections, varsBotSched, NotBot>>

\* availability_duration up to its await of context.bot.send_message
bot_availability_duration(user_id, data) ==
    /\ bot_pending = NoPending
    /\ bot_conversations[user_id] = "AVAILABILITY_DURATION"
    /\ NextMessageId(bot_channel) <= MaxMsgs
    /\ IF ReplaceDuration(data) \notin IntLiterals
       THEN \* ValueError: the handler raises, the conversation keeps its state
            UNCHANGED <<bot_conversations, bot_pending, bot_reply>>
       ELSE LET duration_hours == IntOf(ReplaceDuration(data)) IN
            IF ProfileDatabase_get_profile(BotDb, user_id) = EmptyDict
            THEN \E edited \in BOOLEAN :
                 /\ bot_reply' = IF edited THEN "profile_not_found" ELSE bot_reply
                 /\ bot_conversations' = IF edited
                        THEN [bot_conversations EXCEPT ![user_id] = END]
                        ELSE bot_conversations
                 /\ UNCHANGED bot_pending
            ELSE IF TARGET_GROUP_ID = 0
            THEN \E edited \in BOOLEAN :
                 /\ bot_reply' = IF edited THEN "group_not_configured" ELSE bot_reply
                 /\ bot_conversations' = IF edited
                        THEN [bot_conversations EXCEPT ![user_id] = END]
                        ELSE bot_conversations
                 /\ UNCHANGED bot_pending
            ELSE /\ bot_pending' = [stage |-> "send_message", user_id |-> user_id,
                                    duration_hours |-> duration_hours]
                 /\ UNCHANGED <<bot_conversations, bot_reply>>
    /\ UNCHANGED <<varsBotDb, bot_user_data, bot_selections, bot_tasks, bot_now,
                   bot_channel, bot_delete_log, NotBot>>

\* the except TelegramError branch of availability_duration: the error notice is
\* itself an edit, and raises out of the handler when it fails
PublishFailed(user_id, edited) ==
    /\ bot_reply' = IF edited THEN "error_posting" ELSE bot_reply
    /\ bot_conversations' = IF edited
           THEN [bot_conversations EXCEPT ![user_id] = END]
           ELSE bot_conversations
    /\ bot_pending' = NoPending

\* context.bot.send_message returns (or raises): on success the listing is
\* recorded by db.create_listing and the handler awaits the confirmation edit
bot_send_message_returns ==
    /\ bot_pending.stage = "send_message"
    /\ \E sent \in BOOLEAN, edited \in BOOLEAN :
       LET user_id == bot_pending.user_id
           message_id == NextMessageId(bot_channel)
       IN IF sent
          THEN /\ edited
               /\ bot_channel' = DictPut(bot_channel, message_id, user_id)
               /\ SetBotDb(ProfileDatabase_create_listing(BotDb, user_id,
                                    bot_pending.duration_hours, message_id, bot_now))
               /\ bot_pending' = [stage |-> "edit_message_text", user_id |-> user_id,
                                  duration_hours |-> bot_pending.duration_hours,
                                  message_id |-> message_id]
               /\ UNCHANGED <<bot_conversations, bot_reply>>
          ELSE /\ PublishFailed(user_id, edited)
               /\ UNCHANGED <<varsBotDb, bot_channel>>
    /\ UNCHANGED <<bot_user_data, bot_selections, bot_tasks, bot_now, bot_delete_log,
                   NotBot>>

\* a sleep of hours * 60 seconds, counted in whole hours
SleepHours_minutes(hours) == hours \div 60

\* the argument of asyncio.sleep, in hours (hours * 3600 seconds)
SleepHours(hours) == hours

\* schedule_listing_deletion(context, chat_id, message_id, hours) handed to
\* application.create_task at time now: the coroutine runs to its
\* await asyncio.sleep(hours * 3600) as soon as the handler returns
NewTask(message_id, hours, now) ==
    [message_id |-> message_id, hours |-> hours, wake |-> now + SleepHours(hours)]

\* the tasks after availability_duration's confirmation edit: the task is created
\* after the edit, inside the same try block
TasksAfterEdit(tasks, edited, message_id, hours, now) ==
    IF edited THEN tasks \cup {NewTask(message_id, hours, now)} ELSE tasks

\* the confirmation edit returns (or raises TelegramError)
bot_edit_message_text_returns ==
    /\ bot_pending.stage = "edit_message_text"
    /\ \E edited \in BOOLEAN, edited_again \in BOOLEAN :
       /\ bot_tasks' = TasksAfterEdit(bot_tasks, edited, bot_pending.message_id,
                                      bot_pending.duration_hours, bot_now)
       /\ IF edited
          THEN /\ edited_again
               /\ bot_reply' = "posted"
               /\ bot_conversations' =
                      [bot_conversations EXCEPT ![bot_pending.user_id] = END]
               /\ bot_pending' = NoPending
          ELSE PublishFailed(bot_pending.user_id, edited_again)
    /\ UNCHANGED <<varsBotDb, bot_user_data, bot_selections, bot_now, bot_channel,
                   bot_delete_log, NotBot>>

(* ---- expiration: schedule_listing_deletion ---- *)

\* a task that stays scheduled when its delete call failed
TasksAfterDelete_retry(tasks, t, deleted) == IF deleted THEN tasks \ {t} ELSE tasks

\* the tasks left when task t has made its delete call (it returns either way)
TasksAfterDelete(tasks, t, deleted) == tasks \ {t}

\* schedule_listing_deletion after the sleep: one delete_message, logged either way
bot_schedule_listing_deletion(t) ==
    /\ t \in bot_tasks
    /\ bot_now >= t.wake
    /\ \E deleted \in BOOLEAN :
       /\ bot_delete_log' = Append(bot_delete_log,
              [message_id |-> t.message_id, at |-> bot_now, deleted |-> deleted])
       /\ bot_tasks' = TasksAfterDelete(bot_tasks, t, deleted)
    /\ UNCHANGED <<varsBotDb, varsBotForm, bot_pending, bot_now, bot_channel,
                   bot_reply, NotBot>>

\* available_command: /available reaches it only from inside a conversation (the
\* entry point mark_available takes the command otherwise)
bot_available_command(user_id) ==
    /\ bot_pending = NoPending
    /\ bot_conversations[user_id] # END
    /\ SetBotDb(ProfileDatabase_get_active_listings(BotDb, bot_now))
    /\ \E replied \in BOOLEAN :
          bot_reply' = IF ~replied THEN bot_reply
                       ELSE IF ActiveUsers(bot_active_listings, bot_now) = {}
                            THEN "no_models" ELSE "available_now"
    /\ UNCHANGED <<varsBotForm, varsBotSched, NotBot>>

\* a cancel that is a fallback of the publish flow only
CancelState_publish_only(state) == IF state = "AVAILABILITY_DURATION" THEN END ELSE state

\* the state cancel returns, whatever the state it is called in
CancelState(state) == END

\* cancel: the /cancel fallback, in any state of a conversation
bot_cancel(user_id) ==
    /\ bot_pending = NoPending
    /\ bot_conversations[user_id] # END
    /\ \E replied \in BOOLEAN :
       /\ bot_reply' = IF replied THEN "cancelled" ELSE bot_reply
       /\ bot_conversations' = IF replied
              THEN [bot_conversations EXCEPT ![user_id] =
                       CancelState(bot_conversations[user_id])]
              ELSE bot_conversations
    /\ UNCHANGED <<varsBotDb, bot_user_data, bot_selections, varsBotSched, NotBot>>

\* time passes: the clock is read every TickHours hours
bot_tick ==
    /\ bot_now < MaxTime
    /\ bot_now' = bot_now + TickHours
    /\ UNCHANGED <<varsBotDb, varsBotForm, bot_tasks, bot_pending, bot_channel,
                   bot_delete_log, bot_reply, NotBot>>

(* ---- the profile form: the ConversationHandler states of main() ---- *)

\* the cap on the offerings of one draft
MaxOffers == 2

\* free text an operator types
Texts == {"t"}
NameTexts == {"Alex"}
LocationTexts == {"Uptown", "Downtown"}
\* what an operator types in the media steps
MediaTexts == {"done", "Done", "t"}
\* update.effective_user.username (None when the account has none)
Usernames == {"alex99", "None"}
\* callback_data of the 'Done Selecting' button of the offering menu
DoneButton == "offers_done"
\* callback data a client can send: the buttons of the menus, and 'offer_done',
\* which no button carries
OfferData == {"offer_in_person", "offer_facetime", "offer_custom", "offer_other",
              "offers_done", "offer_done"}
InPersonData == {"inperson_incall", "inperson_both", "offers_done"}
ContactData == {"contact_phone", "contact_email", "contact_telegram", "offers_done"}
PreviewData == {"profile_confirm", "profile_edit", "profile_cancel", "offers_done"}

\* a comparison that takes the text as typed
Lower_as_typed(text) == text

\* str.lower()
Lower(text) == IF text = "Done" THEN "done" ELSE text

\* query.data.replace('offer_', ''): 'offers_done' holds no 'offer_'
ReplaceOffer(data) ==
    CASE data = "offer_in_person" -> "in_person" [] data = "offer_facetime" -> "facetime"
      [] data = "offer_custom" -> "custom" [] data = "offer_other" -> "other"
      [] data = "offer_done" -> "done"
      [] OTHER -> data

\* query.data.replace('inperson_', '')
ReplaceInPerson(data) ==
    CASE data = "inperson_incall" -> "incall" [] data = "inperson_outcall" -> "outcall"
      [] data = "inperson_both" -> "both"
      [] OTHER -> data

\* type_map.get(in_person_type, 'N/A')
type_map(in_person_type) ==
    CASE in_person_type = "incall" -> "Incall Only"
      [] in_person_type = "outcall" -> "Outcall Only"
      [] in_person_type = "both" -> "Incall/Outcall"
      [] OTHER -> "N/A"

\* query.data.replace('contact_', '')
ReplaceContact(data) ==
    CASE data = "contact_phone" -> "phone" [] data = "contact_email" -> "email"
      [] data = "contact_telegram" -> "telegram"
      [] OTHER -> data

\* context.user_data['profile']
Draft(user_id) == bot_user_data[user_id].profile

\* profile.get('offer_types')
Offerings(profile) == DictGet(profile, "offer_types", << >>)

\* the handler returns (moved) or raises at its outbound call (the state is kept)
BotStep(user_id, user_data, moved, state, notice) ==
    /\ bot_user_data' = [bot_user_data EXCEPT ![user_id] = user_data]
    /\ bot_conversations' = IF moved
          THEN [bot_conversations EXCEPT ![user_id] = state]
          ELSE bot_conversations
    /\ bot_reply' = IF moved THEN notice ELSE bot_reply

InState(user_id, state) ==
    /\ bot_pending = NoPending
    /\ bot_conversations[user_id] = state

\* create_profile_start: callback 'create_profile'; for the /createprofile command
\* update.callback_query is None and both branches raise AttributeError
bot_create_profile_start(user_id, kind) ==
    /\ InState(user_id, END)
    /\ IF kind = "command"
       THEN UNCHANGED <<bot_conversations, bot_user_data, bot_reply, bot_selections>>
       ELSE IF ~is_approved_admin(user_id)
       THEN /\ bot_reply' = "not_admin"
            /\ UNCHANGED <<bot_conversations, bot_user_data, bot_selections>>
       ELSE \E edited \in BOOLEAN :
            /\ BotStep(user_id,
                  IF edited THEN DictPut(bot_user_data[user_id], "profile", EmptyDict)
                  ELSE bot_user_data[user_id],
                  edited, "PROFILE_NAME", "enter_name")
            /\ bot_selections' = IF edited
                  THEN [bot_selections EXCEPT ![user_id] = 0] ELSE bot_selections
    /\ UNCHANGED <<varsBotDb, varsBotSched, NotBot>>

\* a handler that stores the text under key before its reply
SetField(user_id, key, text) ==
    DictPut(bot_user_data[user_id], "profile", DictPut(Draft(user_id), key, text))

\* a handler that also appends to profile['offer_types'] before its reply
SetFieldAndAppend(user_id, key, text, offer) ==
    DictPut(bot_user_data[user_id], "profile",
        DictPut(DictPut(Draft(user_id), key, text),
                "offer_types", Append(Draft(user_id).offer_types, offer)))

\* profile_name: the name, the reply, then offer_types = []
bot_profile_name(user_id, text) ==
    /\ InState(user_id, "PROFILE_NAME")
    /\ \E replied \in BOOLEAN :
          BotStep(user_id,
              IF replied
              THEN DictPut(bot_user_data[user_id], "profile",
                      DictPut(DictPut(Draft(user_id), "name", text), "offer_types", << >>))
              ELSE SetField(user_id, "name", text),
              replied, "PROFILE_OFFER_TYPES", "offer_menu")
    /\ UNCHANGED <<bot_selections, varsBotDb, varsBotSched, NotBot>>

\* the state offer_type_selected returns for an offering of the menu
OfferState(offer_type) ==
    CASE offer_type = "in_person" -> "PROFILE_IN_PERSON_TYPE"
      [] offer_type = "facetime" -> "PROFILE_FACETIME_PLATFORMS"
      [] offer_type = "custom" -> "PROFILE_CUSTOM_PAYMENT"
      [] offer_type = "other" -> "PROFILE_OTHER_SERVICE"
      [] OTHER -> "PROFILE_OFFER_TYPES"

\* a 'done' branch without the check of offer_types
DoneState_unguarded(profile) == "PROFILE_ABOUT"

\* the state the 'done' branch of offer_type_selected returns
DoneState(profile) ==
    IF Len(Offerings(profile)) = 0 THEN "PROFILE_OFFER_TYPES" ELSE "PROFILE_ABOUT"

\* offer_type_selected
bot_offer_type_selected(user_id, data) ==
    /\ InState(user_id, "PROFILE_OFFER_TYPES")
    /\ LET offer_type == ReplaceOffer(data) IN
       IF offer_type \in {"in_person", "facetime", "custom", "other"}
       THEN /\ Len(Offerings(Draft(user_id))) < MaxOffers
            /\ \E edited \in BOOLEAN :
               /\ BotStep(user_id,
                     DictPut(bot_user_data[user_id], "current_offer", offer_type),
                     edited, OfferState(offer_type), "offer_details")
               /\ bot_selections' = IF edited
                     THEN [bot_selections EXCEPT ![user_id] = @ + 1]
                     ELSE bot_selections
       ELSE IF offer_type = "done"
       THEN /\ \E edited \in BOOLEAN :
                  BotStep(user_id, bot_user_data[user_id], edited,
                      DoneState(Draft(user_id)),
                      IF Len(Offerings(Draft(user_id))) = 0
                      THEN "select_at_least_one" ELSE "enter_about")
            /\ UNCHANGED bot_selections
       ELSE /\ BotStep(user_id, bot_user_data[user_id], TRUE, "PROFILE_OFFER_TYPES",
                       "answered")
            /\ UNCHANGED bot_selections
    /\ UNCHANGED <<varsBotDb, varsBotSched, NotBot>>

\* in_person_type: the mode and the 'in_person' offering are stored before the edit
bot_in_person_type(user_id, data) ==
    /\ InState(user_id, "PROFILE_IN_PERSON_TYPE")
    /\ Len(Offerings(Draft(user_id))) < MaxOffers
    /\ \E edited \in BOOLEAN :
          BotStep(user_id,
              SetFieldAndAppend(user_id, "in_person_type",
                                type_map(ReplaceInPerson(data)), "in_person"),
              edited, "PROFILE_IN_PERSON_LOCATION", "enter_location")
    /\ UNCHANGED <<bot_selections, varsBotDb, varsBotSched, NotBot>>

\* in_person_location
bot_in_person_location(user_id, text) ==
    /\ InState(user_id, "PROFILE_IN_PERSON_LOCATION")
    /\ \E replied \in BOOLEAN :
          BotStep(user_id, SetField(user_id, "in_person_location", text),
                  replied, "PROFILE_OFFER_TYPES", "offer_menu")
    /\ UNCHANGED <<bot_selections, varsBotDb, varsBotSched, NotBot>>

\* facetime_platforms
bot_facetime_platforms(user_id, text) ==
    /\ InState(user_id, "PROFILE_FACETIME_PLATFORMS")
    /\ Len(Offerings(Draft(user_id))) < MaxOffers
    /\ \E replied \in BOOLEAN :
          BotStep(user_id,
              SetFieldAndAppend(user_id, "facetime_platforms", text, "facetime"),
              replied, "PROFILE_FACETIME_PAYMENT", "enter_payment")
    /\ UNCHANGED <<bot_selections, varsBotDb, varsBotSched, NotBot>>

\* facetime_payment
bot_facetime_payment(user_id, text) ==
    /\ InState(user_id, "PROFILE_FACETIME_PAYMENT")
    /\ \E replied \in BOOLEAN :
          BotStep(user_id, SetField(user_id, "facetime_payment", text),
                  replied, "PROFILE_OFFER_TYPES", "offer_menu")
    /\ UNCHANGED <<bot_selections, varsBotDb, varsBotSched, NotBot>>

\* custom_payment
bot_custom_payment(user_id, text) ==
    /\ InState(user_id, "PROFILE_CUSTOM_PAYMENT")
    /\ Len(Offerings(Draft(user_id))) < MaxOffers
    /\ \E replied \in BOOLEAN :
          BotStep(user_id,
              SetFieldAndAppend(user_id, "custom_payment", text, "custom"),
              replied, "PROFILE_CUSTOM_DELIVERY", "enter_delivery")
    /\ UNCHANGED <<bot_selections, varsBotDb, varsBotSched, NotBot>>

\* custom_delivery
bot_custom_delivery(user_id, text) ==
    /\ InState(user_id, "PROFILE_CUSTOM_DELIVERY")
    /\ \E replied \in BOOLEAN :
          BotStep(user_id, SetField(user_id, "custom_delivery", text),
                  replied, "PROFILE_OFFER_TYPES", "offer_menu")
    /\ UNCHANGED <<bot_selections, varsBotDb, varsBotSched, NotBot>>

\* other_service
bot_other_service(user_id, text) ==
    /\ InState(user_id, "PROFILE_OTHER_SERVICE")
    /\ Len(Offerings(Draft(user_id))) < MaxOffers
    /\ \E replied \in BOOLEAN :
          BotStep(user_id,
              SetFieldAndAppend(user_id, "other_service", text, "other"),
              replied, "PROFILE_OFFER_TYPES", "offer_menu")
    /\ UNCHANGED <<bot_selections, varsBotDb, varsBotSched, NotBot>>

\* profile_about
bot_profile_about(user_id, text) ==
    /\ InState(user_id, "PROFILE_ABOUT")
    /\ \E replied \in BOOLEAN :
          BotStep(user_id, SetField(user_id, "about", text),
                  replied, "PROFILE_CONTACT_METHOD", "contact_menu")
    /\ UNCHANGED <<bot_selections, varsBotDb, varsBotSched, NotBot>>

\* the state contact_method returns
ContactState(method) ==
    CASE method = "phone" -> "PROFILE_PHONE"
      [] method = "email" -> "PROFILE_EMAIL"
      [] method = "telegram" -> "PROFILE_SOCIAL_LINKS"
      [] OTHER -> "PROFILE_CONTACT_METHOD"

\* update.effective_user.username or 'unknown'
UsernameOr(username) == IF username = "None" THEN "unknown" ELSE username

\* contact_method: the method is stored before the branch on it
bot_contact_method(user_id, data, username) ==
    /\ InState(user_id, "PROFILE_CONTACT_METHOD")
    /\ LET method == ReplaceContact(data)
           stored == DictPut(Draft(user_id), "contact_method", method)
       IN \E edited \in BOOLEAN :
          BotStep(user_id,
              DictPut(bot_user_data[user_id], "profile",
                  IF method = "telegram"
                  THEN DictPut(stored, "telegram_username", UsernameOr(username))
                  ELSE stored),
              edited \/ ContactState(method) = "PROFILE_CONTACT_METHOD",
              ContactState(method),
              IF ContactState(method) = "PROFILE_CONTACT_METHOD"
              THEN "answered" ELSE "enter_contact")
    /\ UNCHANGED <<bot_selections, varsBotDb, varsBotSched, NotBot>>

\* profile_phone
bot_profile_phone(user_id, text) ==
    /\ InState(user_id, "PROFILE_PHONE")
    /\ \E replied \in BOOLEAN :
          BotStep(user_id, SetField(user_id, "phone", text),
                  replied, "PROFILE_SOCIAL_LINKS", "enter_social_links")
    /\ UNCHANGED <<bot_selections, varsBotDb, varsBotSched, NotBot>>

\* profile_email
bot_profile_email(user_id, text) ==
    /\ InState(user_id, "PROFILE_EMAIL")
    /\ \E replied \in BOOLEAN :
          BotStep(user_id, SetField(user_id, "email", text),
                  replied, "PROFILE_SOCIAL_LINKS", "enter_social_links")
    /\ UNCHANGED <<bot_selections, varsBotDb, varsBotSched, NotBot>>

\* profile_social_links
bot_profile_social_links(user_id, text) ==
    /\ InState(user_id, "PROFILE_SOCIAL_LINKS")
    /\ \E replied \in BOOLEAN :
          BotStep(user_id, SetField(user_id, "social_links", text),
                  replied, "PROFILE_RATES", "enter_rates")
    /\ UNCHANGED <<bot_selections, varsBotDb, varsBotSched, NotBot>>

\* profile_rates
bot_profile_rates(user_id, text) ==
    /\ InState(user_id, "PROFILE_RATES")
    /\ \E replied \in BOOLEAN :
          BotStep(user_id, SetField(user_id, "rates", text),
                  replied, "PROFILE_DISCLAIMER", "enter_disclaimer")
    /\ UNCHANGED <<bot_selections, varsBotDb, varsBotSched, NotBot>>

\* profile_disclaimer: the disclaimer, the reply, then images = []
bot_profile_disclaimer(user_id, text) ==
    /\ InState(user_id, "PROFILE_DISCLAIMER")
    /\ \E replied \in BOOLEAN :
          BotStep(user_id,
              IF replied
              THEN DictPut(bot_user_data[user_id], "profile",
                      DictPut(DictPut(Draft(user_id), "disclaimer", text), "images", << >>))
              ELSE SetField(user_id, "disclaimer", text),
              replied, "PROFILE_IMAGES", "send_images")
    /\ UNCHANGED <<bot_selections, varsBotDb, varsBotSched, NotBot>>

\* the caps of profile_images and profile_videos
MaxImages == 10
MaxVideos == 4

\* a collection whose cap admits one item too many
AddMedia_inclusive(collection, file_id, cap) ==
    IF Len(collection) <= cap THEN Append(collection, file_id) ELSE collection

\* if len(collection) < cap: collection.append(file_id)
AddMedia(collection, file_id, cap) ==
    IF Len(collection) < cap THEN Append(collection, file_id) ELSE collection

\* a message of the media steps: its text, its photo, its video (None when absent)
TextMessages == {[text |-> t, photo |-> "None", video |-> "None"] : t \in MediaTexts}
MediaMessages ==
    TextMessages \cup {[text |-> "None", photo |-> "file", video |-> "None"],
                       [text |-> "None", photo |-> "None", video |-> "file"]}

\* profile_images: reached by a photo or a text message
bot_profile_images(user_id, message) ==
    /\ InState(user_id, "PROFILE_IMAGES")
    /\ message.video = "None"
    /\ \E replied \in BOOLEAN :
          IF message.text # "None" /\ Lower(message.text) = "done"
          THEN BotStep(user_id,
                  IF replied THEN SetField(user_id, "videos", << >>)
                  ELSE bot_user_data[user_id],
                  replied, "PROFILE_VIDEOS", "send_videos")
          ELSE IF message.photo # "None"
          THEN BotStep(user_id,
                  SetField(user_id, "images",
                      AddMedia(Draft(user_id).images, message.photo, MaxImages)),
                  replied, "PROFILE_IMAGES",
                  IF Len(Draft(user_id).images) < MaxImages
                  THEN "image_saved" ELSE "maximum_images")
          ELSE BotStep(user_id, bot_user_data[user_id], replied, "PROFILE_IMAGES",
                       "please_send_image")
    /\ UNCHANGED <<bot_selections, varsBotDb, varsBotSched, NotBot>>

\* profile_videos: reached by a video or a text message
bot_profile_videos(user_id, message) ==
    /\ InState(user_id, "PROFILE_VIDEOS")
    /\ message.photo = "None"
    /\ \E replied \in BOOLEAN :
          IF message.text # "None" /\ Lower(message.text) = "done"
          THEN BotStep(user_id, bot_user_data[user_id], replied, "PROFILE_PREVIEW",
                       "preview")
          ELSE IF message.video # "None"
          THEN BotStep(user_id,
                  SetField(user_id, "videos",
                      AddMedia(Draft(user_id).videos, message.video, MaxVideos)),
                  replied, "PROFILE_VIDEOS",
                  IF Len(Draft(user_id).videos) < MaxVideos
                  THEN "video_saved" ELSE "maximum_videos")
          ELSE BotStep(user_id, bot_user_data[user_id], replied, "PROFILE_VIDEOS",
                       "please_send_video")
    /\ UNCHANGED <<bot_selections, varsBotDb, varsBotSched, NotBot>>

\* profile_preview: 'profile_confirm' saves the draft before its edit
bot_profile_preview(user_id, data) ==
    /\ InState(user_id, "PROFILE_PREVIEW")
    /\ \E edited \in BOOLEAN :
          IF data = "profile_confirm"
          THEN /\ SetBotDb(ProfileDatabase_save_profile(BotDb, user_id, Draft(user_id)))
               /\ BotStep(user_id, bot_user_data[user_id], edited, END, "profile_saved")
          ELSE IF data = "profile_edit"
          THEN /\ BotStep(user_id, bot_user_data[user_id], edited, END, "edit_coming_soon")
               /\ UNCHANGED varsBotDb
          ELSE IF data = "profile_cancel"
          THEN /\ BotStep(user_id, bot_user_data[user_id], edited, END, "creation_cancelled")
               /\ UNCHANGED varsBotDb
          ELSE /\ BotStep(user_id, bot_user_data[user_id], TRUE, "PROFILE_PREVIEW", "answered")
               /\ UNCHANGED varsBotDb
    /\ UNCHANGED <<bot_selections, varsBotSched, NotBot>>

(* ---- the stores right after construction ---- *)
InitBotVars ==
    /\ bot_profiles = EmptyDict
    /\ bot_active_listings = EmptyDict
    /\ bot_listing_messages = EmptyDict
    /\ bot_conversations = [u \in Users |-> END]
    /\ bot_user_data = [u \in Users |-> EmptyDict]
    /\ bot_tasks = {}
    /\ bot_pending = NoPending
    /\ bot_now = 0
    /\ bot_channel = EmptyDict
    /\ bot_delete_log = << >>
    /\ bot_reply = "none"
    /\ bot_selections = [u \in Users |-> 0]

\* main() before its first get_updates: offset = 0, nothing received yet
InitMainLoop ==
    /\ main_updates = << >>
    /\ main_offset = 0
    /\ main_batch = << >>
    /\ main_handled = [id \in 1..MaxUpdates |-> 0]

InitMainVars ==
    /\ InitMainLoop
    /\ main_profiles = EmptyDict
    /\ main_listings = EmptyDict
    /\ main_user_states = EmptyDict
    /\ main_shared = {}
    /\ main_now = 0
    /\ main_channel = 0
    /\ main_reply = "none"

InitSimpleVars ==
    /\ simple_profiles = EmptyDict
    /\ simple_active_listings = EmptyDict
    /\ simple_state = [u \in Users |-> "None"]
    /\ simple_data = [u \in Users |-> EmptyDict]
    /\ simple_now = 0
    /\ simple_channel = 0
    /\ simple_reply = "none"

vars == <<config, varsBot, varsMain, varsSimple>>

(* ------------------------------------------------------------------ *)
(* SpecBotListing: publish and expiration of src/bot.py, started from  *)
(* stores in which some operators have committed a profile through the *)
(* form (SpecBotForm reaches that profile)                              *)
(* ------------------------------------------------------------------ *)
\* the profile of the end-to-end scenario, as profile_preview commits it
SampleProfile ==
    [name |-> "Alex", offer_types |-> <<"in_person">>,
     in_person_type |-> "Incall/Outcall", in_person_location |-> "Uptown",
     about |-> "t", contact_method |-> "telegram", telegram_username |-> "unknown",
     social_links |-> "t", rates |-> "t", disclaimer |-> "t",
     images |-> << >>, videos |-> << >>]

InitBotListing ==
    /\ InitConfig
    /\ \E committed \in SUBSET Operators :
       /\ bot_profiles = [u \in committed |-> SampleProfile]
       /\ bot_user_data = [u \in Users |->
              IF u \in committed THEN [profile |-> SampleProfile] ELSE EmptyDict]
    /\ bot_active_listings = EmptyDict
    /\ bot_listing_messages = EmptyDict
    /\ bot_conversations = [u \in Users |-> END]
    /\ bot_tasks = {}
    /\ bot_pending = NoPending
    /\ bot_now = 0
    /\ bot_channel = EmptyDict
    /\ bot_delete_log = << >>
    /\ bot_reply = "none"
    /\ bot_selections = [u \in Users |-> 0]
    /\ InitMainVars
    /\ InitSimpleVars

NextBotListing ==
    \/ \E u \in Operators, kind \in {"callback", "command"} : bot_mark_available(u, kind)
    \/ \E u \in Operators, data \in DurationData : bot_availability_duration(u, data)
    \/ bot_send_message_returns
    \/ bot_edit_message_text_returns
    \/ \E t \in bot_tasks : bot_schedule_listing_deletion(t)
    \/ \E u \in Operators : bot_available_command(u)
    \/ \E u \in Operators : bot_cancel(u)
    \/ bot_tick

SpecBotListing == InitBotListing /\ [][NextBotListing]_vars

(* ---- claims settled under SpecBotListing ---- *)

HasUnexpiredListing(u) ==
    /\ u \in DOMAIN bot_active_listings
    /\ bot_active_listings[u].expires_at > bot_now

\* C1: a user who holds an unexpired listing keeps exactly that listing (same
\* message_id and expires_at) through every step, and no further message of that
\* user reaches the channel: a second publish before expiration is refused.
C1_SecondPublishRefused ==
    [][\A u \in Users : HasUnexpiredListing(u) =>
          /\ u \in DOMAIN bot_active_listings'
          /\ bot_active_listings'[u] = bot_active_listings[u]
          /\ \A m \in DOMAIN bot_channel' \ DOMAIN bot_channel : bot_channel'[m] # u]_vars

DeleteAttempted(message_id) ==
    \E i \in DOMAIN bot_delete_log : bot_delete_log[i].message_id = message_id

\* C2: every listing message sent to the channel gets a delete attempt from an
\* expiration task.  Tasks are created by the publish handler alone, and only for
\* the message it has just sent, so the delete is still to come exactly when a task
\* for the message is pending: once the handler has returned, every sent message
\* has been through a delete attempt or has its task pending.
C2_SentMessageHasExpirationTask ==
    bot_pending = NoPending =>
        \A m \in DOMAIN bot_channel :
            DeleteAttempted(m) \/ \E t \in bot_tasks : t.message_id = m

\* C3: no delete of a listing message is attempted before the expires_at that the
\* registry (either index) stores for that message.
C3_DeleteNotBeforeExpiresAt ==
    \A i \in DOMAIN bot_delete_log :
        LET e == bot_delete_log[i] IN
        /\ e.message_id \in DOMAIN bot_listing_messages
               => e.at >= bot_listing_messages[e.message_id].expires_at
        /\ \A u \in DOMAIN bot_active_listings :
               bot_active_listings[u].message_id = e.message_id
               => e.at >= bot_active_listings[u].expires_at

\* a delete has been attempted on a message that both indexes still describe, later
\* than its handler recorded the listing
C3_Witness ==
    \E i \in DOMAIN bot_delete_log :
        LET e == bot_delete_log[i] IN
        /\ e.message_id \in DOMAIN bot_listing_messages
        /\ \E u \in DOMAIN bot_active_listings :
              /\ bot_active_listings[u].message_id = e.message_id
              /\ e.at > bot_active_listings[u].expires_at

\* C4: the delete call is attempted at most once for each listing message, a failed
\* attempt included.
C4_DeleteAtMostOnce ==
    \A i, j \in DOMAIN bot_delete_log :
        bot_delete_log[i].message_id = bot_delete_log[j].message_id => i = j

\* a delete attempt failed, time has passed since, a later message was published and
\* deleted, and the registry was queried: the failed delete was not tried again
C4_Witness ==
    /\ Len(bot_delete_log) = 2
    /\ ~bot_delete_log[1].deleted
    /\ bot_delete_log[2].at > bot_delete_log[1].at
    /\ bot_delete_log[2].message_id # bot_delete_log[1].message_id
    /\ bot_reply \in {"no_models", "available_now"}

(* ------------------------------------------------------------------ *)
(* SpecBotForm: the profile form of src/bot.py for one operator, from  *)
(* the stores as constructed or as an earlier commit of SampleProfile  *)
(* left them.  The form is entered while the operator's stored profile *)
(* is none or SampleProfile: no handler of the form reads the stored   *)
(* profile, so a form entered over any other stored profile runs as    *)
(* one entered over SampleProfile does.                                *)
(* ------------------------------------------------------------------ *)
InitBotForm ==
    /\ APPROVED_ADMINS \in AdminConfigs
    /\ TARGET_GROUP_ID = GroupChat
    /\ \E committed \in SUBSET Operators :
       /\ bot_profiles = [u \in committed |-> SampleProfile]
       /\ bot_user_data = [u \in Users |->
              IF u \in committed THEN [profile |-> SampleProfile] ELSE EmptyDict]
    /\ bot_active_listings = EmptyDict
    /\ bot_listing_messages = EmptyDict
    /\ bot_conversations = [u \in Users |-> END]
    /\ bot_tasks = {}
    /\ bot_pending = NoPending
    /\ bot_now = 0
    /\ bot_channel = EmptyDict
    /\ bot_delete_log = << >>
    /\ bot_reply = "none"
    /\ bot_selections = [u \in Users |-> 0]
    /\ InitMainVars
    /\ InitSimpleVars

\* the stored profile the form is entered over
EntryProfiles == {EmptyDict, SampleProfile}

NextBotForm ==
    \/ \E u \in Operators, kind \in {"callback", "command"} :
          /\ ProfileDatabase_get_profile(BotDb, u) \in EntryProfiles
          /\ bot_create_profile_start(u, kind)
    \/ \E u \in Operators, text \in NameTexts : bot_profile_name(u, text)
    \/ \E u \in Operators, data \in OfferData : bot_offer_type_selected(u, data)
    \/ \E u \in Operators, data \in InPersonData : bot_in_person_type(u, data)
    \/ \E u \in Operators, text \in LocationTexts : bot_in_person_location(u, text)
    \/ \E u \in Operators, text \in Texts : bot_facetime_platforms(u, text)
    \/ \E u \in Operators, text \in Texts : bot_facetime_payment(u, text)
    \/ \E u \in Operators, text \in Texts : bot_custom_payment(u, text)
    \/ \E u \in Operators, text \in Texts : bot_custom_delivery(u, text)
    \/ \E u \in Operators, text \in Texts : bot_other_service(u, text)
    \/ \E u \in Operators, text \in Texts : bot_profile_about(u, text)
    \/ \E u \in Operators, data \in ContactData, username \in Usernames :
          bot_contact_method(u, data, username)
    \/ \E u \in Operators, text \in Texts : bot_profile_phone(u, text)
    \/ \E u \in Operators, text \in Texts : bot_profile_email(u, text)
    \/ \E u \in Operators, text \in Texts : bot_profile_social_links(u, text)
    \/ \E u \in Operators, text \in Texts : bot_profile_rates(u, text)
    \/ \E u \in Operators, text \in Texts : bot_profile_disclaimer(u, text)
    \/ \E u \in Operators, message \in TextMessages : bot_profile_images(u, message)
    \/ \E u \in Operators, message \in TextMessages : bot_profile_videos(u, message)
    \/ \E u \in Operators, data \in PreviewData : bot_profile_preview(u, data)
    \/ \E u \in Operators : bot_cancel(u)

SpecBotForm == InitBotForm /\ [][NextBotForm]_vars

(* ---- claims checked under SpecBotForm ---- *)

\* C6: with at least one offering in the draft, the token of the 'Done
\* Selecting' button moves the form from the offering-choice step to the
\* about step.
C6_DoneButtonEntersAbout ==
    [][\A u \in Operators :
          (/\ InState(u, "PROFILE_OFFER_TYPES")
           /\ Len(Offerings(Draft(u))) > 0
           /\ bot_offer_type_selected(u, DoneButton))
          => bot_conversations'[u] = "PROFILE_ABOUT"]_vars

\* C7: 'done' received in the offering-choice step while offer_types is empty
\* leaves the step and the draft as they were, and the about step is never
\* held with an empty offer_types.
C7_EmptyDoneStays ==
    /\ [](\A u \in Operators :
            bot_conversations[u] = "PROFILE_ABOUT" => Len(Offerings(Draft(u))) > 0)
    /\ [][\A u \in Operators, data \in {DoneButton, "offer_done"} :
            (/\ InState(u, "PROFILE_OFFER_TYPES")
             /\ Len(Offerings(Draft(u))) = 0
             /\ bot_offer_type_selected(u, data))
            => /\ bot_conversations'[u] = "PROFILE_OFFER_TYPES"
               /\ Draft(u)' = Draft(u)]_vars

\* 'done' was refused for an empty offer_types
C7_Witness ==
    \E u \in Operators :
       /\ bot_reply = "select_at_least_one"
       /\ bot_conversations[u] = "PROFILE_OFFER_TYPES"
       /\ Len(Offerings(Draft(u))) = 0

\* C8: back in the offering-choice step, and at the preview of the draft that
\* is committed, offer_types holds one entry per selection made from the menu.
C8_OneEntryPerSelection ==
    \A u \in Operators :
       bot_conversations[u] \in {"PROFILE_OFFER_TYPES", "PROFILE_PREVIEW"}
          => Len(Offerings(Draft(u))) = bot_selections[u]

(* ------------------------------------------------------------------ *)
(* SpecBotMedia: the media steps of the form of src/bot.py, from the   *)
(* state profile_disclaimer leaves: the draft of SampleProfile with an *)
(* empty images list, the operator at PROFILE_IMAGES.                  *)
(* ------------------------------------------------------------------ *)
\* the draft when profile_disclaimer has returned
DraftAtImages ==
    [k \in DOMAIN SampleProfile \ {"videos"} |-> SampleProfile[k]]

InitBotMedia ==
    /\ InitConfig
    /\ bot_profiles = EmptyDict
    /\ bot_active_listings = EmptyDict
    /\ bot_listing_messages = EmptyDict
    /\ bot_conversations = [u \in Users |->
          IF u \in Operators THEN "PROFILE_IMAGES" ELSE END]
    /\ bot_user_data = [u \in Users |->
          IF u \in Operators
          THEN [profile |-> DraftAtImages, current_offer |-> "in_person"]
          ELSE EmptyDict]
    /\ bot_tasks = {}
    /\ bot_pending = NoPending
    /\ bot_now = 0
    /\ bot_channel = EmptyDict
    /\ bot_delete_log = << >>
    /\ bot_reply = "send_images"
    /\ bot_selections = [u \in Users |-> IF u \in Operators THEN 1 ELSE 0]
    /\ InitMainVars
    /\ InitSimpleVars

NextBotMedia ==
    \/ \E u \in Operators, message \in MediaMessages : bot_profile_images(u, message)
    \/ \E u \in Operators, message \in MediaMessages : bot_profile_videos(u, message)
    \/ \E u \in Operators, data \in PreviewData : bot_profile_preview(u, data)
    \/ \E u \in Operators : bot_cancel(u)

SpecBotMedia == InitBotMedia /\ [][NextBotMedia]_vars

\* a message carrying a photo, a message carrying a video
PhotoMessage == [text |-> "None", photo |-> "file", video |-> "None"]
VideoMessage == [text |-> "None", photo |-> "None", video |-> "file"]

\* profile.get('images'), profile.get('videos')
Images(profile) == DictGet(profile, "images", << >>)
Videos(profile) == DictGet(profile, "videos", << >>)

\* C9: a draft and a committed profile hold at most 10 images and at most 4
\* videos, and a photo or video received at the cap leaves the collection and
\* the step as they were.
C9_MediaCaps ==
    /\ [](\A u \in Operators :
            /\ Len(Images(DictGet(bot_user_data[u], "profile", EmptyDict))) <= MaxImages
            /\ Len(Videos(DictGet(bot_user_data[u], "profile", EmptyDict))) <= MaxVideos
            /\ Len(Images(ProfileDatabase_get_profile(BotDb, u))) <= MaxImages
            /\ Len(Videos(ProfileDatabase_get_profile(BotDb, u))) <= MaxVideos)
    /\ [][\A u \in Operators :
            /\ (Len(Images(Draft(u))) = MaxImages /\ bot_profile_images(u, PhotoMessage))
               => /\ Images(Draft(u))' = Images(Draft(u))
                  /\ bot_conversations'[u] = "PROFILE_IMAGES"
            /\ (Len(Videos(Draft(u))) = MaxVideos /\ bot_profile_videos(u, VideoMessage))
               => /\ Videos(Draft(u))' = Videos(Draft(u))
                  /\ bot_conversations'[u] = "PROFILE_VIDEOS"]_vars

\* the eleventh image and the fifth video were refused
C9_Witness ==
    \E u \in Operators :
       /\ bot_reply = "maximum_videos"
       /\ Len(Images(Draft(u))) = MaxImages
       /\ Len(Videos(Draft(u))) = MaxVideos

(* ================================================================== *)
(* src/main.py                                                         *)
(* ================================================================== *)
\* what an action of src/main.py leaves alone
NotMain == <<config, varsBot, varsSimple>>

\* the test each guarded branch makes:
\* APPROVED_ADMINS and str(user_id) not in APPROVED_ADMINS
main_not_authorized(user_id) ==
    APPROVED_ADMINS # {} /\ Str(user_id) \notin APPROVED_ADMINS

\* a get_profile that finds a profile for every user
Database_get_profile_any(user_id) == DictGet(main_profiles, user_id, [name |-> "t"])

\* Database.get_profile; None and {} are both falsy, and both are EmptyDict here
Database_get_profile(user_id) == DictGet(main_profiles, user_id, EmptyDict)

\* db.user_states.get(user_id, default), and state.get('step')
MainState(user_id, default) == DictGet(main_user_states, user_id, default)
MainStep(state) == DictGet(state, "step", "None")

\* state['profile'] = profile and state['step'] = step, then
\* db.user_states[user_id] = state; a committed profile that is the dict
\* object of the draft changes with it
MainStore(user_id, state, profile, step) ==
    /\ main_user_states' = DictPut(main_user_states, user_id,
          DictPut(DictPut(state, "profile", profile), "step", step))
    /\ main_profiles' = IF user_id \in main_shared
          THEN DictPut(main_profiles, user_id, profile) ELSE main_profiles

\* callback data a client can send to handle_callback: the buttons of the
\* menus and of the preview, a forged number and a forged suffix
MainCallbackData == {"create", "delete", "available", "dur_2", "dur_1", "dur_x",
                     "confirm", "cancel"}
\* callback data of the publish and delete paths
MainListingData == {"available", "delete", "dur_2", "dur_6", "dur_1"}
\* callback data routed to handle_callback_contact by main()
MainContactData == {"contact_phone", "contact_email", "contact_telegram", "contact_x"}
\* text an operator types
MainTexts == {"t", "skip"}

\* data.split("_")[1]
SplitDur(data) ==
    CASE data = "dur_1" -> "1" [] data = "dur_2" -> "2" [] data = "dur_4" -> "4"
      [] data = "dur_6" -> "6" [] OTHER -> "x"

\* an entry that keeps the session it finds and only resets its step
MainEntryState_merged(state) == DictPut(state, "step", "name")

\* the session the 'create' branch of handle_callback stores over the one it finds
MainEntryState(state) == [step |-> "name", profile |-> EmptyDict]

\* handle_start
main_handle_start(user_id) ==
    /\ main_reply' = IF main_not_authorized(user_id) THEN "not_authorized" ELSE "menu"
    /\ UNCHANGED <<main_profiles, main_listings, main_user_states, main_shared,
                   main_now, main_channel, NotMain>>

\* Database.get_active_listings: the listings that expire after now stay
Database_get_active_listings(listings, now) ==
    [u \in {x \in DOMAIN listings : listings[x].expires > now} |-> listings[u]]

\* handle_available_command
main_handle_available_command ==
    /\ main_listings' = Database_get_active_listings(main_listings, main_now)
    /\ main_reply' = IF DOMAIN main_listings' = {} THEN "none_available" ELSE "available_now"
    /\ UNCHANGED <<main_profiles, main_user_states, main_shared, main_now,
                   main_channel, NotMain>>

\* a delete_profile that leaves the listing of the user
Database_delete_profile_keeps(profiles, listings, user_id) == listings

\* Database.delete_profile: db.listings when the profile has been deleted
Database_delete_profile(profiles, listings, user_id) ==
    IF user_id \in DOMAIN profiles THEN DictDel(listings, user_id) ELSE listings

\* Database.create_listing
Database_create_listing(listings, user_id, hours, now) ==
    DictPut(listings, user_id,
            [created |-> now, expires |-> now + hours, hours |-> hours])

\* handle_callback; int() of a suffix that is no number raises ValueError,
\* which the loop of main() logs; data of no branch ('confirm', 'cancel') gets
\* the answer_callback of the first line and nothing else
main_handle_callback(user_id, data) ==
    /\ IF data \in {"create", "delete", "available"} /\ main_not_authorized(user_id)
       THEN /\ main_reply' = "not_authorized"
            /\ UNCHANGED <<main_profiles, main_listings, main_user_states, main_shared,
                           main_channel>>
       ELSE IF data = "create"
       THEN /\ main_user_states' = DictPut(main_user_states, user_id,
                   MainEntryState(MainState(user_id, EmptyDict)))
            /\ main_shared' = main_shared \ {user_id}
            /\ main_reply' = "enter_name"
            /\ UNCHANGED <<main_profiles, main_listings, main_channel>>
       ELSE IF data = "delete"
       THEN /\ main_profiles' = DictDel(main_profiles, user_id)
            /\ main_listings' = Database_delete_profile(main_profiles, main_listings,
                                                        user_id)
            /\ main_shared' = main_shared \ {user_id}
            /\ main_reply' = IF user_id \in DOMAIN main_profiles
                  THEN "profile_deleted" ELSE "no_profile_found"
            /\ UNCHANGED <<main_user_states, main_channel>>
       ELSE IF data = "available"
       THEN IF Database_get_profile(user_id) = EmptyDict
            THEN /\ main_reply' = "create_profile_first"
                 /\ UNCHANGED <<main_profiles, main_listings, main_user_states,
                                main_shared, main_channel>>
            ELSE /\ main_user_states' = DictPut(main_user_states, user_id,
                        [step |-> "duration"])
                 /\ main_reply' = "duration_menu"
                 /\ UNCHANGED <<main_profiles, main_listings, main_shared, main_channel>>
       ELSE IF data \in {"dur_1", "dur_2", "dur_4", "dur_6", "dur_x"}
       THEN IF SplitDur(data) \notin IntLiterals
            THEN UNCHANGED <<main_profiles, main_listings, main_user_states, main_shared,
                             main_channel, main_reply>>
            ELSE IF Database_get_profile(user_id) = EmptyDict \/ TARGET_GROUP_ID = 0
            THEN /\ main_reply' = "not_configured"
                 /\ UNCHANGED <<main_profiles, main_listings, main_user_states,
                                main_shared, main_channel>>
            ELSE \E sent \in BOOLEAN :
                 /\ sent => main_channel < MaxMsgs
                 /\ main_channel' = IF sent THEN main_channel + 1 ELSE main_channel
                 /\ main_listings' = Database_create_listing(main_listings, user_id,
                                         IntOf(SplitDur(data)), main_now)
                 /\ main_reply' = "posted"
                 /\ UNCHANGED <<main_profiles, main_user_states, main_shared>>
       ELSE /\ main_reply' = "answered"
            /\ UNCHANGED <<main_profiles, main_listings, main_user_states, main_shared,
                           main_channel>>
    /\ UNCHANGED <<main_now, NotMain>>

\* handle_text; state['profile'] of a state without the key raises KeyError,
\* which the loop of main() logs
main_handle_text(user_id, text) ==
    /\ LET state == MainState(user_id, EmptyDict)
           step == MainStep(state)
       IN IF step \in {"name", "about", "contact_input", "rates"}
             /\ "profile" \notin DOMAIN state
          THEN UNCHANGED <<main_profiles, main_user_states, main_shared, main_reply>>
          ELSE IF step = "name"
          THEN /\ MainStore(user_id, state, DictPut(state.profile, "name", text), "about")
               /\ main_reply' = "enter_about"
               /\ UNCHANGED main_shared
          ELSE IF step = "about"
          THEN /\ MainStore(user_id, state, DictPut(state.profile, "about", text), "contact")
               /\ main_reply' = "contact_menu"
               /\ UNCHANGED main_shared
          ELSE IF step = "contact_input"
          THEN /\ MainStore(user_id, state, DictPut(state.profile, "contact", text), "rates")
               /\ main_reply' = "enter_rates"
               /\ UNCHANGED main_shared
          ELSE IF step = "rates"
          THEN LET profile == IF Lower(text) # "skip"
                              THEN DictPut(state.profile, "rates", text)
                              ELSE state.profile
               IN /\ main_user_states' = DictPut(main_user_states, user_id,
                        DictPut(DictPut(state, "profile", profile), "step", "preview"))
                  /\ main_profiles' = DictPut(main_profiles, user_id, profile)
                  /\ main_shared' = main_shared \cup {user_id}
                  /\ main_reply' = "preview"
          ELSE /\ main_user_states' = DictPut(main_user_states, user_id, state)
               /\ UNCHANGED <<main_profiles, main_shared, main_reply>>
    /\ UNCHANGED <<main_listings, main_now, main_channel, NotMain>>

\* handle_callback_contact
main_handle_callback_contact(user_id, data) ==
    /\ LET state == MainState(user_id, [profile |-> EmptyDict])
       IN IF data \in {"contact_phone", "contact_email"}
          THEN /\ main_user_states' = DictPut(main_user_states, user_id,
                      DictPut(state, "step", "contact_input"))
               /\ main_reply' = "enter_contact"
               /\ UNCHANGED main_profiles
          ELSE IF data = "contact_telegram"
          THEN IF "profile" \notin DOMAIN state
               THEN UNCHANGED <<main_profiles, main_user_states, main_reply>>
               ELSE /\ MainStore(user_id, state,
                          DictPut(state.profile, "contact", "@contact_telegram"), "rates")
                    /\ main_reply' = "enter_rates"
          ELSE /\ main_user_states' = DictPut(main_user_states, user_id, state)
               /\ UNCHANGED <<main_profiles, main_reply>>
    /\ UNCHANGED <<main_listings, main_shared, main_now, main_channel, NotMain>>

\* time passes
main_tick ==
    /\ main_now < MaxTime
    /\ main_now' = main_now + TickHours
    /\ UNCHANGED <<main_profiles, main_listings, main_user_states, main_shared,
                   main_channel, main_reply, NotMain>>

(* ------------------------------------------------------------------ *)
(* SpecMain: the form and the publish path of src/main.py for one      *)
(* user, approved or not by the configuration, at one instant.         *)
(* ------------------------------------------------------------------ *)
InitMain ==
    /\ InitConfig
    /\ InitBotVars
    /\ InitMainVars
    /\ InitSimpleVars

NextMain ==
    \/ \E u \in Operators : main_handle_start(u) /\ UNCHANGED varsMainLoop
    \/ \E u \in Operators, data \in MainCallbackData :
          main_handle_callback(u, data) /\ UNCHANGED varsMainLoop
    \/ \E u \in Operators, text \in MainTexts :
          main_handle_text(u, text) /\ UNCHANGED varsMainLoop
    \/ \E u \in Operators, data \in MainContactData :
          main_handle_callback_contact(u, data) /\ UNCHANGED varsMainLoop

SpecMain == InitMain /\ [][NextMain]_vars

(* ------------------------------------------------------------------ *)
(* SpecMainListing: publish, delete and expiry of src/main.py over     *)
(* time, for a user whose form has committed MainSampleProfile.        *)
(* ------------------------------------------------------------------ *)
\* the profile committed by 'create', "t", "t", 'contact_telegram', "t"
MainSampleProfile ==
    [name |-> "t", about |-> "t", contact |-> "@contact_telegram", rates |-> "t"]

InitMainListing ==
    /\ InitConfig
    /\ InitBotVars
    /\ InitSimpleVars
    /\ \E committed \in SUBSET Operators :
       /\ main_profiles = [u \in committed |-> MainSampleProfile]
       /\ main_user_states =
             [u \in committed |-> [step |-> "preview", profile |-> MainSampleProfile]]
       /\ main_shared = committed
    /\ main_listings = EmptyDict
    /\ main_now = 0
    /\ main_channel = 0
    /\ main_reply = "none"
    /\ InitMainLoop

NextMainListing ==
    \/ \E u \in Operators, data \in MainListingData :
          main_handle_callback(u, data) /\ UNCHANGED varsMainLoop
    \/ main_handle_available_command /\ UNCHANGED varsMainLoop
    \/ main_tick /\ UNCHANGED varsMainLoop

SpecMainListing == InitMainListing /\ [][NextMainListing]_vars

\* C5: a profile is written into db.profiles only by the confirm choice made at
\* the preview step.
C5_WrittenOnlyByConfirm ==
    [][\A u \in Operators :
          (/\ u \in DOMAIN main_profiles'
           /\ main_profiles'[u] # Database_get_profile(u))
          => /\ MainStep(MainState(u, EmptyDict)) = "preview"
             /\ main_handle_callback(u, "confirm")]_vars

\* C10: a user the authorization test refuses has no session, no profile and
\* no listing.
C10_UnauthorizedLeavesNoTrace ==
    \A u \in Users :
       main_not_authorized(u)
          => /\ MainStep(MainState(u, EmptyDict)) = "None"
             /\ u \notin DOMAIN main_profiles
             /\ u \notin DOMAIN main_listings

(* ---- claims checked under SpecMainListing ---- *)

\* C11: a listing is stored for a user only in a step in which the listing
\* message reached the group.
C11_ListingOnlyAfterSend ==
    [][\A u \in Operators :
          (/\ u \in DOMAIN main_listings'
           /\ (u \notin DOMAIN main_listings \/ main_listings'[u] # main_listings[u]))
          => main_channel' = main_channel + 1]_vars

(* ---- further claims checked under SpecBotListing ---- *)

C13_PreviewChoiceEndsSession ==
    [][\A u \in Operators, data \in {"confirm", "cancel"} :
          (/\ MainStep(MainState(u, EmptyDict)) = "preview"
           /\ main_handle_callback(u, data))
          => u \notin DOMAIN main_user_states']_vars

RegistryHours == {1, 2}

\* a listing message reaches the group and db.create_listing records it
db_create_listing(user_id, duration_hours) ==
    /\ NextMessageId(bot_channel) <= MaxMsgs
    /\ bot_channel' = DictPut(bot_channel, NextMessageId(bot_channel), user_id)
    /\ SetBotDb(ProfileDatabase_create_listing(BotDb, user_id, duration_hours,
                                               NextMessageId(bot_channel), bot_now))
    /\ UNCHANGED <<varsBotForm, bot_tasks, bot_pending, bot_now, bot_delete_log,
                   bot_reply, NotBot>>

\* db.delete_listing(user_id)
db_delete_listing(user_id) ==
    /\ SetBotDb(ProfileDatabase_delete_listing(BotDb, user_id))
    /\ UNCHANGED <<varsBotForm, varsBotSched, bot_reply, NotBot>>

\* db.get_active_listings()
db_get_active_listings ==
    /\ SetBotDb(ProfileDatabase_get_active_listings(BotDb, bot_now))
    /\ UNCHANGED <<varsBotForm, varsBotSched, bot_reply, NotBot>>

InitBotRegistry ==
    /\ InitConfig
    /\ InitBotVars
    /\ InitMainVars
    /\ InitSimpleVars

NextBotRegistry ==
    \/ \E u \in Users, hours \in RegistryHours : db_create_listing(u, hours)
    \/ \E u \in Users : db_delete_listing(u)
    \/ db_get_active_listings
    \/ bot_tick

SpecBotRegistry == InitBotRegistry /\ [][NextBotRegistry]_vars

\* C15: delete_listing removes the entry of the user and of no other user,
\* deletes no message of the group, changes no store for a user without a
\* listing, and a second call changes nothing more.
C15_RevokeRemovesEntryOnly ==
    /\ [](\A u \in Users :
            LET once == ProfileDatabase_delete_listing(BotDb, u) IN
            /\ u \notin DOMAIN once.active_listings
            /\ once.profiles = bot_profiles
            /\ ProfileDatabase_delete_listing(once, u) = once
            /\ u \notin DOMAIN bot_active_listings => once = BotDb)
    /\ [][\A u \in Users :
            db_delete_listing(u)
            => /\ u \notin DOMAIN bot_active_listings'
               /\ \A x \in DOMAIN bot_active_listings \ {u} :
                     /\ x \in DOMAIN bot_active_listings'
                     /\ bot_active_listings'[x] = bot_active_listings[x]
               /\ bot_channel' = bot_channel
               /\ bot_delete_log' = bot_delete_log
               /\ bot_profiles' = bot_profiles]_vars

\* delete_listing has removed the entry of a message that is still in the group
C15_Witness ==
    \E message_id \in DOMAIN bot_channel :
       /\ message_id \notin DOMAIN bot_listing_messages
       /\ bot_channel[message_id] \notin DOMAIN bot_active_listings
       /\ bot_delete_log = << >>

(* ------------------------------------------------------------------ *)
(* SpecBotRevoke: the publish and expiration of SpecBotListing, with   *)
(* db.delete_listing called on the stores between the handlers.        *)
(* ------------------------------------------------------------------ *)
NextBotRevoke ==
    \/ NextBotListing
    \/ \E u \in Operators : db_delete_listing(u)

SpecBotRevoke == InitBotListing /\ [][NextBotRevoke]_vars

\* message_id was recorded by create_listing and removed by delete_listing
Revoked(message_id) ==
    /\ message_id \in DOMAIN bot_channel
    /\ message_id \notin DOMAIN bot_listing_messages

\* C16: the expiration task of a listing that delete_listing has removed makes
\* no delete_message call when its time comes.
C16_RevokedIsNotDeleted ==
    [][\A t \in bot_tasks :
          (Revoked(t.message_id) /\ bot_schedule_listing_deletion(t))
          => bot_delete_log' = bot_delete_log]_vars

EntriesOf(listings, message_id) ==
    {u \in DOMAIN listings : listings[u].message_id = message_id}

\* C18: when the expiration task of a listing has made its delete call,
\* db.active_listings holds no entry of that listing's message.
C18_FiredTaskRemovesEntry ==
    [][\A t \in bot_tasks :
          bot_schedule_listing_deletion(t)
          => EntriesOf(bot_active_listings', t.message_id) = {}]_vars

\* C19: while no handler is suspended, a user has an entry in
\* db.active_listings exactly when an expiration task for the message of that
\* entry is pending.
C19_RegistryAgreesWithTasks ==
    bot_pending = NoPending
       => /\ \A u \in DOMAIN bot_active_listings :
                \E t \in bot_tasks : t.message_id = bot_active_listings[u].message_id
          /\ \A t \in bot_tasks : EntriesOf(bot_active_listings, t.message_id) # {}

\* the user whose listing message the task deletes
TaskUser(t) == bot_channel[t.message_id]

\* C20: no user has two pending expiration tasks.
C20_OneTaskPerUser ==
    \A t1 \in bot_tasks, t2 \in bot_tasks :
       TaskUser(t1) = TaskUser(t2) => t1 = t2

(* ---- further claims checked under SpecBotForm ---- *)

\* the tokens of the buttons the in-person and the contact-method steps offer
InPersonTokens == {"inperson_incall", "inperson_outcall", "inperson_both"}
ContactTokens == {"contact_phone", "contact_email", "contact_telegram"}

\* C21: in the in-person mode step and in the contact-method step a choice
\* whose token is not one of the step's buttons leaves the session in the same
\* step and the draft as it was.
C21_UnknownChoiceRejected ==
    [][\A u \in Operators :
          /\ \A data \in InPersonData \ InPersonTokens :
                bot_in_person_type(u, data)
                => /\ bot_conversations'[u] = "PROFILE_IN_PERSON_TYPE"
                   /\ Draft(u)' = Draft(u)
          /\ \A data \in ContactData \ ContactTokens, username \in Usernames :
                bot_contact_method(u, data, username)
                => /\ bot_conversations'[u] = "PROFILE_CONTACT_METHOD"
                   /\ Draft(u)' = Draft(u)]_vars

\* C22: a choice made at the preview step other than confirm and cancel leaves
\* the session at the preview step, and the draft and db.profiles as they
\* were.
C22_OnlyConfirmAndCancelEnd ==
    [][\A u \in Operators, data \in PreviewData \ {"profile_confirm", "profile_cancel"} :
          bot_profile_preview(u, data)
          => /\ bot_conversations'[u] = "PROFILE_PREVIEW"
             /\ Draft(u)' = Draft(u)
             /\ bot_profiles' = bot_profiles]_vars

\* the handler raised at its outbound call: the conversation keeps its state
RaisedIn(user_id, state) == bot_conversations'[user_id] = state

\* C23: when the send or the edit of profile_name, of in_person_type or of the
\* confirm branch of profile_preview fails, the draft, the step and db.profiles
\* are as they were before the input.
C23_FailedCallLeavesNoTrace ==
    [][\A u \in Operators :
          (\/ \E text \in NameTexts :
                 bot_profile_name(u, text) /\ RaisedIn(u, "PROFILE_NAME")
           \/ \E data \in InPersonTokens :
                 bot_in_person_type(u, data) /\ RaisedIn(u, "PROFILE_IN_PERSON_TYPE")
           \/ bot_profile_preview(u, "profile_confirm") /\ RaisedIn(u, "PROFILE_PREVIEW"))
          => /\ bot_user_data'[u] = bot_user_data[u]
             /\ bot_profiles' = bot_profiles]_vars

\* C25: is_approved_admin is false for every user whose id is not in
\* APPROVED_ADMINS, the empty APPROVED_ADMINS included, and create_profile_start
\* refuses such a user.
C25_NonMemberRefused ==
    [][\A u \in Operators :
          (/\ Str(u) \notin APPROVED_ADMINS
           /\ bot_create_profile_start(u, "callback"))
          => /\ ~is_approved_admin(u)
             /\ bot_reply' = "not_admin"
             /\ bot_conversations'[u] = END]_vars

(* ---- further claims checked under SpecMain ---- *)

\* C24: for a user with no entry in db.user_states, a text message and a
\* contact-method choice leave db.user_states, db.profiles and db.listings as
\* they were.
C24_NoSessionInputIsNoOp ==
    [][\A u \in Operators :
          (/\ u \notin DOMAIN main_user_states
           /\ \/ \E text \in MainTexts : main_handle_text(u, text)
              \/ \E data \in MainContactData : main_handle_callback_contact(u, data))
          => /\ main_user_states' = main_user_states
             /\ main_profiles' = main_profiles
             /\ main_listings' = main_listings]_vars

(* ---- further claims checked under SpecBotListing ---- *)

\* the durations of the buttons mark_available offers
PermittedDurations == {2, 4, 6}

\* C26: every listing in db.active_listings has a duration of 2, 4 or 6 hours,
\* and a duration choice with another value leads to no send and no listing.
C26_DurationIsPermitted ==
    /\ [](\A u \in DOMAIN bot_active_listings :
            bot_active_listings[u].duration_hours \in PermittedDurations)
    /\ [][\A u \in Operators, data \in DurationData :
            (/\ ReplaceDuration(data) \in IntLiterals
                => IntOf(ReplaceDuration(data)) \notin PermittedDurations
             /\ bot_availability_duration(u, data))
            => /\ bot_pending' = NoPending
               /\ bot_channel' = bot_channel
               /\ bot_active_listings' = bot_active_listings]_vars

(* ---- claims about the committed profile of src/main.py, under SpecMain ---- *)

\* C27: the profile db.profiles holds for a user is not changed by a
\* contact-method choice, nor by a text handled at a step other than the rates
\* step (the one step whose handler calls save_profile).
C27_CommittedChangesOnlyBySave ==
    [][\A u \in Operators :
          (/\ u \in DOMAIN main_profiles
           /\ \/ \E data \in MainContactData : main_handle_callback_contact(u, data)
              \/ /\ MainStep(MainState(u, EmptyDict)) # "rates"
                 /\ \E text \in MainTexts : main_handle_text(u, text))
          => /\ u \in DOMAIN main_profiles'
             /\ main_profiles'[u] = main_profiles[u]]_vars

\* C28: every profile in db.profiles has at least one entry in its offer_types.
C28_CommittedHasOffering ==
    \A u \in DOMAIN main_profiles : Len(Offerings(main_profiles[u])) >= 1

(* ---- claims about the offerings of the draft of src/bot.py, under SpecBotForm ---- *)

\* the locations the in-person offerings of a profile carry: format_profile_text
\* reads them from the one key profile['in_person_location']
InPersonLocations(profile) ==
    IF "in_person_location" \in DOMAIN profile
    THEN {profile["in_person_location"]} ELSE {}

\* C29: when In-Person has been selected a second time and its location is
\* entered, the draft still carries the location entered for the first
\* selection, next to the new one.
C29_OfferingKeepsItsDetails ==
    [][\A u \in Operators, text \in LocationTexts :
          (/\ bot_selections[u] = 2
           /\ Offerings(Draft(u)) = <<"in_person", "in_person">>
           /\ InPersonLocations(Draft(u)) # {text}
           /\ bot_in_person_location(u, text))
          => InPersonLocations(Draft(u)) \cup {text} \subseteq InPersonLocations(Draft(u)')]_vars

(* ---- claims about the order of the steps of src/main.py, under SpecMain ---- *)

\* the steps of the form of src/main.py other than the contact-method step
MainOtherSteps == {"name", "about", "contact_input", "rates", "preview"}

\* C30: a contact-method choice received by a session that is not at the
\* contact-method step leaves the step as it is, and a session at the preview
\* step has a draft with a name, an about text and a contact.
C30_StepsFollowTheGraph ==
    /\ [](\A u \in DOMAIN main_user_states :
            MainStep(main_user_states[u]) = "preview"
            => {"name", "about", "contact"} \subseteq DOMAIN main_user_states[u].profile)
    /\ [][\A u \in Operators, data \in MainContactData :
            (/\ MainStep(MainState(u, EmptyDict)) \in MainOtherSteps
             /\ main_handle_callback_contact(u, data))
            => MainStep(MainState(u, EmptyDict))' = MainStep(MainState(u, EmptyDict))]_vars

(* ------------------------------------------------------------------ *)
(* src/bot_simple.py: the aiogram handlers.  The dispatcher runs the   *)
(* first registered handler whose filters accept the event, so every   *)
(* action is guarded by its own filters and by the negation of the     *)
(* filters of the handlers registered before it.  MemoryStorage hands  *)
(* out a shallow copy of the FSM data: a handler that changes          *)
(* data['profile'] in place has changed the stored draft.              *)
(* ------------------------------------------------------------------ *)
NotSimple == <<config, varsBot, varsMain>>

\* message.text of the messages an operator sends; None for a photo or a video
SimpleTexts == {"t", "None"}
SimpleSkipTexts == {"skip", "None"}
\* callback data starting with "offer_", and the token of the Done button
SimpleOfferData == {"offer_other", "offer_done"}
SimpleContactData == {"contact_phone", "contact_email", "contact_telegram", "mark_available"}
SimplePreviewData == {"profile_confirm", "profile_cancel", "mark_available"}
SimpleDurationData == {"duration_2", "duration_1"}

\* len(APPROVED_ADMINS) > 0 and str(user_id) not in APPROVED_ADMINS
simple_not_admin(user_id) == APPROVED_ADMINS # {} /\ Str(user_id) \notin APPROVED_ADMINS

\* data.get('profile', {})
SimpleDraft(user_id) == DictGet(simple_data[user_id], "profile", EmptyDict)

\* the handler changes the draft, makes its outbound call and then sets the
\* state; when the call raises, the state and the notice stay
SimpleStep(user_id, profile, called, state, notice) ==
    /\ simple_data' = [simple_data EXCEPT ![user_id] = DictPut(@, "profile", profile)]
    /\ simple_state' = IF called THEN [simple_state EXCEPT ![user_id] = state]
                       ELSE simple_state
    /\ simple_reply' = IF called THEN notice ELSE simple_reply

\* state.clear()
SimpleClear(user_id) ==
    /\ simple_state' = [simple_state EXCEPT ![user_id] = "None"]
    /\ simple_data' = [simple_data EXCEPT ![user_id] = EmptyDict]

\* create_profile_start: F.data == "create_profile", in every state
simple_create_profile_start(user_id) ==
    /\ IF simple_not_admin(user_id)
       THEN /\ simple_reply' = "not_admin"
            /\ UNCHANGED <<simple_state, simple_data>>
       ELSE \E edited \in BOOLEAN :
            IF edited
            THEN SimpleStep(user_id, EmptyDict, TRUE, "name", "enter_name")
            ELSE UNCHANGED <<simple_state, simple_data, simple_reply>>
    /\ UNCHANGED <<simple_profiles, simple_active_listings, simple_now, simple_channel,
                   NotSimple>>

\* profile_name: every message received in ProfileStates.name
simple_profile_name(user_id, text) ==
    /\ simple_state[user_id] = "name"
    /\ \E replied \in BOOLEAN :
          SimpleStep(user_id, [name |-> text], replied, "offer_types", "offer_menu")
    /\ UNCHANGED <<simple_profiles, simple_active_listings, simple_now, simple_channel,
                   NotSimple>>

\* offer_selected: ProfileStates.offer_types and F.data.startswith("offer_")
simple_offer_selected(user_id, data) ==
    /\ simple_state[user_id] = "offer_types"
    /\ LET offer_type == ReplaceOffer(data)
           offer_types == Offerings(SimpleDraft(user_id))
       IN IF offer_type # "done"
          THEN /\ Len(offer_types) < MaxOffers
               /\ \E edited \in BOOLEAN :
                     SimpleStep(user_id,
                         DictPut(SimpleDraft(user_id), "offer_types",
                                 Append(offer_types, offer_type)),
                         edited, "offer_types", "added")
          ELSE IF Len(offer_types) = 0
          THEN SimpleStep(user_id, DictPut(SimpleDraft(user_id), "offer_types", << >>),
                          TRUE, "offer_types", "select_at_least_one")
          ELSE \E edited \in BOOLEAN :
                  SimpleStep(user_id, SimpleDraft(user_id), edited, "about", "enter_about")
    /\ UNCHANGED <<simple_profiles, simple_active_listings, simple_now, simple_channel,
                   NotSimple>>

\* a handler of a text step: profile[key] = message.text, the reply, the state
SimpleTextStep(user_id, key, text, state, notice) ==
    \E replied \in BOOLEAN :
       SimpleStep(user_id, DictPut(SimpleDraft(user_id), key, text), replied,
                  state, notice)

\* profile_about
simple_profile_about(user_id, text) ==
    /\ simple_state[user_id] = "about"
    /\ SimpleTextStep(user_id, "about", text, "contact_method", "contact_menu")
    /\ UNCHANGED <<simple_profiles, simple_active_listings, simple_now, simple_channel,
                   NotSimple>>

\* handle_phone
simple_handle_phone(user_id, text) ==
    /\ simple_state[user_id] = "phone"
    /\ SimpleTextStep(user_id, "phone", text, "social_links", "enter_social_links")
    /\ UNCHANGED <<simple_profiles, simple_active_listings, simple_now, simple_channel,
                   NotSimple>>

\* handle_email
simple_handle_email(user_id, text) ==
    /\ simple_state[user_id] = "email"
    /\ SimpleTextStep(user_id, "email", text, "social_links", "enter_social_links")
    /\ UNCHANGED <<simple_profiles, simple_active_listings, simple_now, simple_channel,
                   NotSimple>>

\* contact_method: every callback query received in ProfileStates.contact_method
\* that create_profile_start has not taken
simple_contact_method(user_id, data, username) ==
    /\ simple_state[user_id] = "contact_method"
    /\ data # "create_profile"
    /\ LET method == ReplaceContact(data)
           stored == DictPut(SimpleDraft(user_id), "contact_method", method)
       IN \E edited \in BOOLEAN :
          IF method = "phone"
          THEN SimpleStep(user_id, stored, edited, "phone", "enter_contact")
          ELSE IF method = "email"
          THEN SimpleStep(user_id, stored, edited, "email", "enter_contact")
          ELSE SimpleStep(user_id,
                  DictPut(stored, "telegram_username", UsernameOr(username)),
                  edited, "social_links", "enter_social_links")
    /\ UNCHANGED <<simple_profiles, simple_active_listings, simple_now, simple_channel,
                   NotSimple>>

\* a handler of a step that accepts 'skip': message.text.lower() raises
\* AttributeError for a message without text
SimpleSkipStep(user_id, key, text, state, notice) ==
    IF text = "None"
    THEN UNCHANGED <<simple_state, simple_data, simple_reply>>
    ELSE \E replied \in BOOLEAN :
         SimpleStep(user_id,
             IF Lower(text) # "skip" THEN DictPut(SimpleDraft(user_id), key, text)
             ELSE SimpleDraft(user_id),
             replied, state, notice)

\* handle_social_links
simple_handle_social_links(user_id, text) ==
    /\ simple_state[user_id] = "social_links"
    /\ SimpleSkipStep(user_id, "social_links", text, "rates", "enter_rates")
    /\ UNCHANGED <<simple_profiles, simple_active_listings, simple_now, simple_channel,
                   NotSimple>>

\* handle_rates
simple_handle_rates(user_id, text) ==
    /\ simple_state[user_id] = "rates"
    /\ SimpleSkipStep(user_id, "rates", text, "disclaimer", "enter_disclaimer")
    /\ UNCHANGED <<simple_profiles, simple_active_listings, simple_now, simple_channel,
                   NotSimple>>

\* handle_disclaimer: the profile is saved before the preview is sent
simple_handle_disclaimer(user_id, text) ==
    /\ simple_state[user_id] = "disclaimer"
    /\ IF text = "None"
       THEN UNCHANGED <<simple_state, simple_data, simple_reply, simple_profiles>>
       ELSE LET noted == IF Lower(text) # "skip"
                         THEN DictPut(SimpleDraft(user_id), "disclaimer", text)
                         ELSE SimpleDraft(user_id)
                profile == DictPut(DictPut(noted, "images", << >>), "videos", << >>)
            IN /\ simple_profiles' = DictPut(simple_profiles, user_id, profile)
               /\ \E replied \in BOOLEAN :
                     SimpleStep(user_id, profile, replied, "preview", "preview")
    /\ UNCHANGED <<simple_active_listings, simple_now, simple_channel, NotSimple>>

\* profile_preview: every callback query received in ProfileStates.preview that
\* create_profile_start has not taken
simple_profile_preview(user_id, data) ==
    /\ simple_state[user_id] = "preview"
    /\ data # "create_profile"
    /\ \E edited \in BOOLEAN :
          IF edited
          THEN /\ SimpleClear(user_id)
               /\ simple_reply' = IF data = "profile_confirm"
                                  THEN "profile_saved" ELSE "profile_cancelled"
          ELSE UNCHANGED <<simple_state, simple_data, simple_reply>>
    /\ UNCHANGED <<simple_profiles, simple_active_listings, simple_now, simple_channel,
                   NotSimple>>

\* mark_available: F.data == "mark_available", in every state whose own handler
\* (contact_method, profile_preview) has not taken the query
simple_mark_available(user_id) ==
    /\ simple_state[user_id] \notin {"contact_method", "preview"}
    /\ IF simple_not_admin(user_id)
       THEN /\ simple_reply' = "not_admin"
            /\ UNCHANGED simple_state
       ELSE IF DictGet(simple_profiles, user_id, EmptyDict) = EmptyDict
       THEN /\ simple_reply' = "create_profile_first"
            /\ UNCHANGED simple_state
       ELSE \E edited \in BOOLEAN :
            IF edited
            THEN /\ simple_state' = [simple_state EXCEPT ![user_id] = "availability_duration"]
                 /\ simple_reply' = "duration_menu"
            ELSE UNCHANGED <<simple_state, simple_reply>>
    /\ UNCHANGED <<simple_data, simple_profiles, simple_active_listings, simple_now,
                   simple_channel, NotSimple>>

\* ProfileDB.create_listing, called at time now
ProfileDB_create_listing(listings, user_id, duration_hours, now) ==
    DictPut(listings, user_id,
        [expires_at |-> ExpiresAt(now, duration_hours),
         duration_hours |-> duration_hours, created_at |-> now])

\* availability_duration: ProfileStates.availability_duration and
\* F.data.startswith("duration_")
simple_availability_duration(user_id, data) ==
    /\ simple_state[user_id] = "availability_duration"
    /\ IF DictGet(simple_profiles, user_id, EmptyDict) = EmptyDict
       THEN /\ simple_reply' = "profile_not_found"
            /\ UNCHANGED <<simple_state, simple_data, simple_active_listings,
                           simple_channel>>
       ELSE IF TARGET_GROUP_ID = 0
       THEN /\ simple_reply' = "group_not_configured"
            /\ UNCHANGED <<simple_state, simple_data, simple_active_listings,
                           simple_channel>>
       ELSE \E sent \in BOOLEAN, edited \in BOOLEAN :
            /\ sent => simple_channel < MaxMsgs
            /\ simple_channel' = IF sent THEN simple_channel + 1 ELSE simple_channel
            /\ simple_active_listings' = IF sent
                  THEN ProfileDB_create_listing(simple_active_listings, user_id,
                          IntOf(ReplaceDuration(data)), simple_now)
                  ELSE simple_active_listings
            /\ IF edited
               THEN /\ SimpleClear(user_id)
                    /\ simple_reply' = IF sent THEN "posted" ELSE "error_posting"
               ELSE UNCHANGED <<simple_state, simple_data, simple_reply>>
    /\ UNCHANGED <<simple_profiles, simple_now, NotSimple>>

\* delete_profile: F.data == "delete_profile", in every state whose own handler
\* has not taken the query; db.delete_profile, then db.delete_listing
simple_delete_profile(user_id) ==
    /\ simple_state[user_id] \notin {"contact_method", "preview"}
    /\ IF simple_not_admin(user_id)
       THEN /\ simple_reply' = "not_admin"
            /\ UNCHANGED <<simple_profiles, simple_active_listings>>
       ELSE IF user_id \in DOMAIN simple_profiles
       THEN /\ simple_profiles' = DictDel(simple_profiles, user_id)
            /\ simple_active_listings' = DictDel(simple_active_listings, user_id)
            /\ simple_reply' = "profile_deleted"
       ELSE /\ simple_reply' = "no_profile_to_delete"
            /\ UNCHANGED <<simple_profiles, simple_active_listings>>
    /\ UNCHANGED <<simple_state, simple_data, simple_now, simple_channel, NotSimple>>

(* ------------------------------------------------------------------ *)
(* SpecSimple: the form and the publish path of src/bot_simple.py for  *)
(* one user, approved or not by the configuration, at one instant.     *)
(* ------------------------------------------------------------------ *)
InitSimple ==
    /\ InitConfig
    /\ InitBotVars
    /\ InitMainVars
    /\ InitSimpleVars

NextSimple ==
    \/ \E u \in Operators : simple_create_profile_start(u)
    \/ \E u \in Operators, text \in SimpleTexts : simple_profile_name(u, text)
    \/ \E u \in Operators, data \in SimpleOfferData : simple_offer_selected(u, data)
    \/ \E u \in Operators, text \in Texts : simple_profile_about(u, text)
    \/ \E u \in Operators, data \in SimpleContactData, username \in Usernames :
          simple_contact_method(u, data, username)
    \/ \E u \in Operators, text \in Texts : simple_handle_phone(u, text)
    \/ \E u \in Operators, text \in Texts : simple_handle_email(u, text)
    \/ \E u \in Operators, text \in SimpleSkipTexts : simple_handle_social_links(u, text)
    \/ \E u \in Operators, text \in MainTexts : simple_handle_rates(u, text)
    \/ \E u \in Operators, text \in SimpleSkipTexts : simple_handle_disclaimer(u, text)
    \/ \E u \in Operators, data \in SimplePreviewData : simple_profile_preview(u, data)
    \/ \E u \in Operators : simple_mark_available(u)
    \/ \E u \in Operators, data \in SimpleDurationData :
          simple_availability_duration(u, data)
    \/ \E u \in Operators : simple_delete_profile(u)

SpecSimple == InitSimple /\ [][NextSimple]_vars

(* ---- claims checked under SpecSimple ---- *)

\* C31: a message without text (a photo, a video) received in a text step
\* leaves the step and the draft as they were.
C31_NonTextRejected ==
    [][\A u \in Operators :
          (\/ simple_profile_name(u, "None")
           \/ simple_handle_social_links(u, "None")
           \/ simple_handle_disclaimer(u, "None"))
          => /\ simple_state'[u] = simple_state[u]
             /\ SimpleDraft(u)' = SimpleDraft(u)]_vars

(* ---- claims about the entry of the form of src/main.py, under SpecMain ---- *)

IsDone(message) == message.text \in {"done", "Done"}

\* C33: 'done' in any letter case moves the image step to the video step and
\* the video step to the preview step with the collections as they were; a
\* message that is neither the sentinel nor a media item of the step's type
\* leaves the step and the draft as they were.
C33_SentinelAdvances ==
    [][\A u \in Operators, message \in MediaMessages :
          /\ (IsDone(message) /\ bot_profile_images(u, message))
             => /\ bot_conversations'[u] = "PROFILE_VIDEOS"
                /\ Images(Draft(u)') = Images(Draft(u))
          /\ (IsDone(message) /\ bot_profile_videos(u, message))
             => /\ bot_conversations'[u] = "PROFILE_PREVIEW"
                /\ Draft(u)' = Draft(u)
          /\ (~IsDone(message) /\ message.photo = "None"
                /\ bot_profile_images(u, message))
             => /\ bot_conversations'[u] = "PROFILE_IMAGES"
                /\ Draft(u)' = Draft(u)
          /\ (~IsDone(message) /\ message.video = "None"
                /\ bot_profile_videos(u, message))
             => /\ bot_conversations'[u] = "PROFILE_VIDEOS"
                /\ Draft(u)' = Draft(u)]_vars

\* the sentinel has closed the image step and then the video step of a draft
\* that holds an image and a video
C33_Witness ==
    \E u \in Operators :
       /\ bot_conversations[u] = "PROFILE_PREVIEW"
       /\ bot_reply = "preview"
       /\ Len(Images(Draft(u))) > 0
       /\ Len(Videos(Draft(u))) > 0

(* ---- claims about the expiration task and the handlers, under SpecBotListing ---- *)

\* a handler of an event of user_id is suspended at an outbound call
Suspended(user_id) ==
    /\ bot_pending # NoPending
    /\ bot_pending.user_id = user_id

\* C34: the expiration task of a listing makes its delete call only while no
\* handler of an event of the listing's user is suspended at an outbound call.
C34_TaskSerializedWithHandlers ==
    [][\A t \in bot_tasks :
          bot_schedule_listing_deletion(t) => ~Suspended(TaskUser(t))]_vars

(* ------------------------------------------------------------------ *)
(* SpecMainLoop: the polling loop of main() of src/main.py.  Telegram  *)
(* keeps every update whose update_id is not below the last offset it  *)
(* was asked for; get_updates returns them in the order of their ids.  *)
(* ------------------------------------------------------------------ *)
\* the updates of the loop: a text, the 'create' choice, and a duration choice
\* whose suffix is not a number (int() raises ValueError)
LoopUpdates ==
    {[kind |-> "text", data |-> "t"],
     [kind |-> "callback", data |-> "create"],
     [kind |-> "callback", data |-> "dur_x"]}

\* the handler of update raises out of the for loop
Raises(user_id, update) ==
    IF update.kind = "callback"
    THEN update.data \in {"dur_1", "dur_2", "dur_4", "dur_6", "dur_x"}
         /\ SplitDur(update.data) \notin IntLiterals
    ELSE /\ MainStep(MainState(user_id, EmptyDict)) \in {"name", "about", "contact_input", "rates"}
         /\ "profile" \notin DOMAIN MainState(user_id, EmptyDict)

\* an offset that is moved only when the handler has returned
OffsetAfter_on_return(offset, update_id, raised) ==
    IF raised THEN offset ELSE update_id + 1

\* offset = update['update_id'] + 1, the first statement of the for body
OffsetAfter(offset, update_id, raised) == update_id + 1

\* result of getUpdates: the update_ids from offset on
GetUpdates(offset) ==
    LET from == IF offset < 1 THEN 1 ELSE offset
    IN [i \in 1..(Len(main_updates) + 1 - from) |-> from + i - 1]

\* a client sends an update to the bot
main_update_arrives(update) ==
    /\ Len(main_updates) < MaxUpdates
    /\ main_updates' = Append(main_updates, update)
    /\ UNCHANGED <<main_offset, main_batch, main_handled>>
    /\ UNCHANGED <<main_profiles, main_listings, main_user_states, main_shared,
                   main_now, main_channel, main_reply, NotMain>>

\* updates = get_updates(offset), at the top of the while loop; [] when the
\* request fails
main_get_updates ==
    /\ main_batch = << >>
    /\ \E ok \in BOOLEAN :
          main_batch' = IF ok THEN GetUpdates(main_offset) ELSE << >>
    /\ UNCHANGED <<main_updates, main_offset, main_handled>>
    /\ UNCHANGED <<main_profiles, main_listings, main_user_states, main_shared,
                   main_now, main_channel, main_reply, NotMain>>

\* one pass of the for body: the offset, then the handler; an exception leaves
\* the for loop for the except branch, and the while loop goes on
main_for_body(user_id) ==
    /\ main_batch # << >>
    /\ LET update_id == Head(main_batch)
           update == main_updates[update_id]
           raised == Raises(user_id, update)
       IN /\ main_offset' = OffsetAfter(main_offset, update_id, raised)
          /\ main_handled' = [main_handled EXCEPT ![update_id] =
                                 IF @ < 2 THEN @ + 1 ELSE @]
          /\ main_batch' = IF raised THEN << >> ELSE Tail(main_batch)
          /\ IF update.kind = "text"
             THEN main_handle_text(user_id, update.data)
             ELSE main_handle_callback(user_id, update.data)
    /\ UNCHANGED main_updates

InitMainLoopSpec ==
    /\ InitConfig
    /\ InitBotVars
    /\ InitMainVars
    /\ InitSimpleVars

NextMainLoop ==
    \/ \E update \in LoopUpdates : main_update_arrives(update)
    \/ main_get_updates
    \/ \E u \in Operators : main_for_body(u)

SpecMainLoop == InitMainLoopSpec /\ [][NextMainLoop]_vars

\* the loop keeps running and Telegram answers a request in the end
FairSpecMainLoop ==
    /\ SpecMainLoop
    /\ SF_vars(main_get_updates /\ main_batch' # << >>)
    /\ WF_vars(\E u \in Operators : main_for_body(u))

\* C35: the handling of an update is started at most once, also when it
\* raised; and every update Telegram has received is handled in the end, the
\* ones that followed a raising update in its batch included.
C35_LoopSurvivesErrors ==
    /\ [](\A id \in 1..MaxUpdates : main_handled[id] <= 1)
    /\ \A id \in 1..MaxUpdates :
          (Len(main_updates) >= id) ~> (main_handled[id] = 1)

\* an update that raised and the update behind it in the same batch have both
\* been handled once
C35_Witness ==
    \E id \in 1..(MaxUpdates - 1) :
       /\ Len(main_updates) > id
       /\ main_updates[id].data = "dur_x"
       /\ main_handled[id] = 1
       /\ main_handled[id + 1] = 1
       /\ main_offset = id + 2

(* ---- claims about the publish flow and the form of src/main.py, under SpecMain ---- *)

\* the steps of a form session of src/main.py
MainFormSteps == MainOtherSteps \cup {"contact"}

\* C36: the mark-available choice and the duration choice of a user whose form
\* session is in progress leave that session (its step and its draft) as it
\* was.
C36_PublishKeepsFormSession ==
    [][\A u \in Operators, data \in {"available", "dur_2", "dur_1"} :
          (/\ MainStep(MainState(u, EmptyDict)) \in MainFormSteps
           /\ main_handle_callback(u, data))
          => /\ u \in DOMAIN main_user_states'
             /\ main_user_states'[u] = main_user_states[u]]_vars

(* ---- claims about /cancel of src/bot.py, under SpecBotForm ---- *)

\* C37: /cancel handled in any state of a conversation ends that conversation
\* and leaves db.profiles and db.active_listings as they were.
C37_CancelEndsConversation ==
    [][\A u \in Operators :
          bot_cancel(u)
          => /\ bot_conversations'[u] = END
             /\ bot_profiles' = bot_profiles
             /\ bot_active_listings' = bot_active_listings]_vars

\* a form with an offering in its draft was cancelled over a committed profile
C37_Witness ==
    \E u \in Operators :
       /\ bot_reply = "cancelled"
       /\ bot_conversations[u] = END
       /\ Len(Offerings(Draft(u))) > 0
       /\ "about" \notin DOMAIN Draft(u)
       /\ u \in DOMAIN bot_profiles

\* C38: the two indexes of ProfileDatabase describe the same listings: a
\* message id is a key of listing_messages exactly when some user's entry of
\* active_listings has that message_id, and the two entries carry the same
\* user_id and expires_at.
C38_IndexesAgree ==
    /\ \A message_id \in DOMAIN bot_listing_messages :
          \E u \in DOMAIN bot_active_listings :
             bot_active_listings[u].message_id = message_id
    /\ \A u \in DOMAIN bot_active_listings :
          LET message_id == bot_active_listings[u].message_id IN
          /\ message_id \in DOMAIN bot_listing_messages
          /\ bot_listing_messages[message_id].user_id = u
          /\ bot_listing_messages[message_id].expires_at
                = bot_active_listings[u].expires_at

====
